---------------------------- MODULE Spec2Model ----------------------------
(***************************************************************************)
(* Model of xyproto/simplegres: the connection-string codec of helpers.go  *)
(* (twoFields, leftOf, rightOf, splitConnectionString,                     *)
(* buildConnectionString, rebuildConnectionString) and the Set.Add /       *)
(* Set.Has pair of the database wrapper.                                   *)
(*                                                                         *)
(* A Go string is modelled as a sequence of one-character strings, so that *)
(* counting, splitting and trimming are computed character by character.   *)
(***************************************************************************)
EXTENDS Integers, Sequences, FiniteSets

VARIABLES mode, pc, fields, connectionString, parsed, newConnectionString,
          dbname, reparsed, table, callerPc, callerValue, calls

vars == <<mode, pc, fields, connectionString, parsed, newConnectionString,
          dbname, reparsed, table, callerPc, callerValue, calls>>

codecVars == <<mode, pc, fields, connectionString, parsed, newConnectionString,
               dbname, reparsed>>

setVars == <<table, callerPc, callerValue, calls>>

(***************************************************************************)
(* Bounds of the model.                                                    *)
(***************************************************************************)
\* every string over Alphabet of at most this length is an input of the parser
MaxLen == 4
\* number of concurrent callers of Set.Add
NumCallers == 2
\* number of Set.Add / Set.Has calls each caller makes
MaxCalls == 2

(***************************************************************************)
(* Program constants.                                                      *)
(***************************************************************************)
defaultDatabaseName == <<"t", "e", "s", "t">>

defaultPort == 3306

(***************************************************************************)
(* The standard-library string functions the codec uses.                   *)
(***************************************************************************)
\* unicode.IsSpace, restricted to the white space the inputs can hold
Whitespace == {" ", "\t", "\n", "\r"}

MinOf(S) == CHOOSE x \in S : \A y \in S : x <= y

MaxOf(S) == CHOOSE x \in S : \A y \in S : x >= y

\* strings.Count(s, delim) for a one-character delim
Count(s, delim) == Cardinality({i \in 1..Len(s) : s[i] = delim})

\* strings.Contains(s, substr) for a one-character substr
Contains(s, substr) == \E i \in 1..Len(s) : s[i] = substr

\* strings.TrimSpace(s)
TrimSpace(s) ==
    LET keep == {i \in 1..Len(s) : s[i] \notin Whitespace}
    IN  IF keep = {} THEN <<>> ELSE SubSeq(s, MinOf(keep), MaxOf(keep))

\* strings.TrimRight(s, cutset), cutset given as a set of characters
TrimRight(s, cutset) ==
    LET keep == {i \in 1..Len(s) : s[i] \notin cutset}
    IN  IF keep = {} THEN <<>> ELSE SubSeq(s, 1, MaxOf(keep))

\* strings.HasPrefix(s, prefix)
HasPrefix(s, prefix) ==
    Len(s) >= Len(prefix) /\ SubSeq(s, 1, Len(prefix)) = prefix

Digits == <<"0", "1", "2", "3", "4", "5", "6", "7", "8", "9">>

RECURSIVE Itoa(_)
\* strconv.Itoa(n) for n >= 0
Itoa(n) ==
    IF n < 10 THEN <<Digits[n + 1]>>
    ELSE Itoa(n \div 10) \o <<Digits[(n % 10) + 1]>>

(***************************************************************************)
(* helpers.go                                                              *)
(***************************************************************************)
\* twoFields: <<left, right, ok>>; the delimiter must exist exactly once
twoFields(s, delim) ==
    IF Count(s, delim) # 1 THEN <<s, <<>>, FALSE>>
    ELSE LET i == CHOOSE j \in 1..Len(s) : s[j] = delim
         IN  <<SubSeq(s, 1, i - 1), SubSeq(s, i + 1, Len(s)), TRUE>>

leftOf(s, delim) ==
    LET r == twoFields(s, delim)
    IN  IF r[3] THEN TrimSpace(r[1]) ELSE <<>>

rightOf(s, delim) ==
    LET r == twoFields(s, delim)
    IN  IF r[3] THEN TrimSpace(r[2]) ELSE <<>>


(***************************************************************************)
(* splitConnectionString, block by block.  Each block is an operator over  *)
(* the local variables the block reads, returning the ones it assigns.     *)
(***************************************************************************)
\* lines 51-57: <<userPass, hostPortDatabase>>
splitUserPassBlock(cs) ==
    LET userPass == leftOf(cs, "@")
    IN  IF userPass # <<>> THEN <<userPass, rightOf(cs, "@")>>
        ELSE <<userPass, TrimRight(cs, {"@"})>>

\* lines 58-65, mutated: the default database name is never assigned
splitDatabaseBlock_NoDefault(cs, hostPortDatabase) ==
    LET db == rightOf(hostPortDatabase, "/")
    IN  IF db # <<>> THEN <<leftOf(hostPortDatabase, "/"), db>>
        ELSE <<TrimRight(cs, {"/"}), db>>

\* lines 58-65: <<hostPort, dbname>>
splitDatabaseBlock(cs, hostPortDatabase) ==
    LET db == rightOf(hostPortDatabase, "/")
    IN  IF db # <<>> THEN <<leftOf(hostPortDatabase, "/"), db>>
        ELSE <<TrimRight(cs, {"/"}), defaultDatabaseName>>

\* lines 66-68: hostPort
splitStrayAtBlock(hostPort) ==
    IF Contains(hostPort, "@") THEN rightOf(hostPort, "@") ELSE hostPort

\* lines 69-76: <<username, password, hasPassword>>
splitPasswordBlock(userPass) ==
    LET pw == TrimSpace(rightOf(userPass, ":"))
        user == IF pw # <<>> THEN leftOf(userPass, ":")
                ELSE TrimRight(userPass, {":"})
    IN  <<user, pw, pw # <<>> >>

\* lines 77-86, mutated: the default port is never assigned
splitPortBlock_NoDefault(hostPort) ==
    LET prt == rightOf(hostPort, ":")
    IN  IF prt # <<>> THEN <<leftOf(hostPort, ":"), prt>>
        ELSE <<TrimRight(hostPort, {":"}), <<>> >>

\* lines 77-86: <<host, port>>
splitPortBlock(hostPort) ==
    LET prt == rightOf(hostPort, ":")
    IN  IF prt # <<>> THEN <<leftOf(hostPort, ":"), prt>>
        ELSE LET h == TrimRight(hostPort, {":"})
             IN  IF h # <<>> THEN <<h, Itoa(defaultPort)>> ELSE <<h, <<>> >>

\* lines 88-93, mutated: dbname keeps its "?args" tail
splitArgsBlock_KeepTail(db) ==
    IF Contains(db, "?") /\ Contains(db, "=")
    THEN <<db, rightOf(db, "?")>>
    ELSE <<db, <<>> >>

\* lines 88-93: <<dbname, args>>
splitArgsBlock(db) ==
    IF Contains(db, "?") /\ Contains(db, "=")
    THEN LET a == rightOf(db, "?")
         IN  IF a # <<>> THEN <<leftOf(db, "?"), a>> ELSE <<db, a>>
    ELSE <<db, <<>> >>

\* Parse a DSN
splitConnectionString(cs) ==
    LET up == splitUserPassBlock(cs)
        hd == splitDatabaseBlock(cs, up[2])
        hostPort == splitStrayAtBlock(hd[1])
        cred == splitPasswordBlock(up[1])
        hp == splitPortBlock(hostPort)
        da == splitArgsBlock(hd[2])
    IN  [username |-> cred[1], password |-> cred[2], hasPassword |-> cred[3],
         host |-> hp[1], port |-> hp[2], dbname |-> da[1], args |-> da[2]]

(***************************************************************************)
(* buildConnectionString, block by block: what each block writes to buf.   *)
(***************************************************************************)
postgresScheme == <<"p", "o", "s", "t", "g", "r", "e", "s", ":", "/", "/">>

sslmodeDisable ==
    <<"s", "s", "l", "m", "o", "d", "e", "=", "d", "i", "s", "a", "b", "l", "e">>

\* lines 116-118
buildSchemeBlock(username) ==
    IF ~HasPrefix(username, postgresScheme) THEN postgresScheme ELSE <<>>

\* lines 120-126, mutated: the guards test password instead of hasPassword
buildCredentialsBlock_ByPassword(username, password, hasPassword) ==
    IF username # <<>> /\ password # <<>>
    THEN username \o <<":">> \o password \o <<"@">>
    ELSE IF username # <<>> THEN username \o <<"@">>
    ELSE IF password # <<>> THEN <<":">> \o password \o <<"@">>
    ELSE <<>>

\* lines 120-126
buildCredentialsBlock(username, password, hasPassword) ==
    IF username # <<>> /\ hasPassword
    THEN username \o <<":">> \o password \o <<"@">>
    ELSE IF username # <<>> THEN username \o <<"@">>
    ELSE IF hasPassword THEN <<":">> \o password \o <<"@">>
    ELSE <<>>

\* lines 128-133, mutated: the port is written only inside the host branch
buildHostPortBlock_PortInsideHost(host, port) ==
    IF host # <<>>
    THEN host \o (IF port # <<>> THEN <<":">> \o port ELSE <<>>)
    ELSE <<>>

\* lines 128-133
buildHostPortBlock(host, port) ==
    (IF host # <<>> THEN host ELSE <<>>)
        \o (IF port # <<>> THEN <<":">> \o port ELSE <<>>)

\* lines 137-141, mutated: the default argument is appended after given args too
buildArgsBlock_AlwaysDefault(args) ==
    IF args # <<>> THEN <<"?">> \o args \o <<"&">> \o sslmodeDisable
    ELSE <<"?">> \o sslmodeDisable

\* lines 137-141
buildArgsBlock(args) ==
    IF args # <<>> THEN <<"?">> \o args ELSE <<"?">> \o sslmodeDisable

\* Build a DSN
buildConnectionString(f) ==
    buildSchemeBlock(f.username)
        \o buildCredentialsBlock(f.username, f.password, f.hasPassword)
        \o buildHostPortBlock(f.host, f.port)
        \o <<"/">> \o f.dbname
        \o buildArgsBlock(f.args)

\* Take apart and rebuild the connection string: <<connection string, dbname>>
rebuildConnectionString(cs) ==
    LET f == splitConnectionString(cs)
    IN  <<buildConnectionString(f), f.dbname>>

(***************************************************************************)
(* Inputs of the codec.                                                    *)
(***************************************************************************)
\* one letter, white space, and every character the parser treats specially
Alphabet == {"a", " ", "@", "/", ":", "?", "="}

RECURSIVE StringsOfLen(_)
StringsOfLen(n) ==
    IF n = 0 THEN {<<>>}
    ELSE {Append(s, c) : s \in StringsOfLen(n - 1), c \in Alphabet}

AllStrings == UNION {StringsOfLen(n) : n \in 0..MaxLen}

\* non-empty, delimiter-free components: plain, with inner and with leading
\* white space
Components == {<<"a">>, <<"b", " ", "c">>, <<" ", "d">>}

ArgComponents == {<<"k", "=", "v">>, <<"=">>}

\* [username[:password]@]: absent, user@, user:pass@, user:@
CredentialForms ==
    {<<>>}
        \cup {u \o <<"@">> : u \in Components}
        \cup {u \o <<":">> \o p \o <<"@">> : u \in Components, p \in Components}
        \cup {u \o <<":", "@">> : u \in Components}

\* host[:port]
HostPortForms ==
    Components \cup {h \o <<":">> \o p : h \in Components, p \in Components}

\* /database[?args]
DatabaseForms ==
    {<<"/">> \o d : d \in Components}
        \cup {<<"/">> \o d \o <<"?">> \o a : d \in Components, a \in ArgComponents}

GrammarStrings ==
    {c \o h \o d : c \in CredentialForms, h \in HostPortForms, d \in DatabaseForms}

\* the inputs the specification and the documentation name
ExampleStrings ==
    {<<"u", "s", "e", "r", ":", "p", "a", "s", "s", "@", "h", "o", "s", "t", ":", "p", "o", "r", "t", "/", "d", "b", "?", "a", "r", "g", "s", "=", "1">>,
     <<"h", "o", "s", "t", "/", "d", "b">>,
     <<"u", "s", "e", "r", "@", "h", "o", "s", "t", "/", "d", "b">>,
     <<"u", "s", "e", "r", ":", "@", "h", "o", "s", "t", ":", "1", "2", "3", "4", "/", "d", "b">>,
     <<"u", "s", "e", "r", "@", "h", "o", "s", "t", ":", "1", "2", "3", "4", "/", "d", "b">>,
     <<"h", "o", "s", "t", "/", "?", "s", "s", "l", "m", "o", "d", "e", "=", "r", "e", "q", "u", "i", "r", "e">>,
     <<":", "1", "2", "3", "4", "/", "d", "b">>,
     <<"d", "b">>}

Inputs == AllStrings \cup GrammarStrings \cup ExampleStrings

\* arguments of buildConnectionString
FieldTuples ==
    [username : {<<>>, <<"u">>, postgresScheme \o <<"u">>},
     password : {<<>>, <<"p">>},
     hasPassword : BOOLEAN,
     host : {<<>>, <<"h">>},
     port : {<<>>, <<"1">>},
     dbname : {<<"d">>, defaultDatabaseName},
     args : {<<>>, <<"k", "=", "v">>, sslmodeDisable}]

NoFields ==
    [username |-> <<>>, password |-> <<>>, hasPassword |-> FALSE,
     host |-> <<>>, port |-> <<>>, dbname |-> <<>>, args |-> <<>>]

(***************************************************************************)
(* The codec as a state machine.  mode "build" starts from a field tuple   *)
(* handed to buildConnectionString; mode "parse" starts from a connection  *)
(* string handed to splitConnectionString and rebuildConnectionString.     *)
(***************************************************************************)
Callers == 1..NumCallers

Values == {"a", "b"}

\* the table NewSet creates is empty; no caller has called yet
SetInitial ==
    /\ table = [v \in Values |-> 0]
    /\ callerPc = [c \in Callers |-> "idle"]
    /\ callerValue = [c \in Callers |-> "a"]
    /\ calls = [c \in Callers |-> 0]

InitCodec ==
    /\ \/ /\ mode = "build"
          /\ pc = "fields"
          /\ fields \in FieldTuples
          /\ connectionString = <<>>
       \/ /\ mode = "parse"
          /\ pc = "string"
          /\ fields = NoFields
          /\ connectionString \in Inputs
    /\ parsed = NoFields
    /\ newConnectionString = <<>>
    /\ dbname = <<>>
    /\ reparsed = NoFields

Init == InitCodec /\ SetInitial

\* buildConnectionString(fields)
Build ==
    /\ pc = "fields"
    /\ connectionString' = buildConnectionString(fields)
    /\ pc' = "string"
    /\ UNCHANGED <<mode, fields, parsed, newConnectionString, dbname, reparsed>>
    /\ UNCHANGED setVars

\* splitConnectionString(connectionString)
Split ==
    /\ pc = "string"
    /\ parsed' = splitConnectionString(connectionString)
    /\ pc' = "split"
    /\ UNCHANGED <<mode, fields, connectionString, newConnectionString, dbname,
                   reparsed>>
    /\ UNCHANGED setVars

\* rebuildConnectionString(connectionString)
Rebuild ==
    /\ pc = "split"
    /\ LET r == rebuildConnectionString(connectionString)
       IN  /\ newConnectionString' = r[1]
           /\ dbname' = r[2]
    /\ pc' = "rebuilt"
    /\ UNCHANGED <<mode, fields, connectionString, parsed, reparsed>>
    /\ UNCHANGED setVars

\* splitConnectionString(newConnectionString): the rebuilt string parsed again
Resplit ==
    /\ pc = "rebuilt"
    /\ reparsed' = splitConnectionString(newConnectionString)
    /\ pc' = "resplit"
    /\ UNCHANGED <<mode, fields, connectionString, parsed, newConnectionString,
                   dbname>>
    /\ UNCHANGED setVars

Next == Build \/ Split \/ Rebuild \/ Resplit

Spec == Init /\ [][Next]_vars

(***************************************************************************)
(* Set.Add and Set.Has on one table.  The table created by NewSet has a    *)
(* single VARCHAR column and no key, so it is a bag of values.  Each SQL   *)
(* statement is one atomic step; Add is the Has query followed, when the   *)
(* value was not found, by a separate INSERT.                              *)
(***************************************************************************)
\* Set.Has(value): the number of rows the SELECT returns
HasCounter(value) == table[value]

\* the codec takes no part in the runs of the set
CodecUnused ==
    /\ mode = "set"
    /\ pc = "none"
    /\ fields = NoFields
    /\ connectionString = <<>>
    /\ parsed = NoFields
    /\ newConnectionString = <<>>
    /\ dbname = <<>>
    /\ reparsed = NoFields

InitSet == SetInitial /\ CodecUnused

\* a panic in any goroutine ends the program
Running == \A c \in Callers : callerPc[c] # "panicked"

\* Set.Add(value), lines 274-275: the Has query and the test of its result
AddHas(c, value) ==
    /\ Running
    /\ callerPc[c] = "idle"
    /\ calls[c] < MaxCalls
    /\ calls' = [calls EXCEPT ![c] = @ + 1]
    /\ callerValue' = [callerValue EXCEPT ![c] = value]
    /\ callerPc' = [callerPc EXCEPT ![c] =
                        IF HasCounter(value) > 1 THEN "panicked"
                        ELSE IF HasCounter(value) > 0 THEN "idle"
                        ELSE "insert"]
    /\ UNCHANGED table
    /\ UNCHANGED codecVars

\* Set.Add(value), line 277: the INSERT
AddInsert(c) ==
    /\ Running
    /\ callerPc[c] = "insert"
    /\ table' = [table EXCEPT ![callerValue[c]] = @ + 1]
    /\ callerPc' = [callerPc EXCEPT ![c] = "idle"]
    /\ UNCHANGED <<callerValue, calls>>
    /\ UNCHANGED codecVars

\* Set.Has(value) called on its own
Has(c, value) ==
    /\ Running
    /\ callerPc[c] = "idle"
    /\ calls[c] < MaxCalls
    /\ calls' = [calls EXCEPT ![c] = @ + 1]
    /\ callerValue' = [callerValue EXCEPT ![c] = value]
    /\ callerPc' = [callerPc EXCEPT ![c] =
                        IF HasCounter(value) > 1 THEN "panicked" ELSE "idle"]
    /\ UNCHANGED table
    /\ UNCHANGED codecVars

NextSet ==
    \E c \in Callers :
        \/ \E value \in Values : AddHas(c, value)
        \/ AddInsert(c)
        \/ \E value \in Values : Has(c, value)

SpecSet == InitSet /\ [][NextSet]_vars

(***************************************************************************)
(* Reference reading of a connection string, by delimiter position, and    *)
(* of the documented output format.  Used only to state the properties.    *)
(***************************************************************************)
Delimiters == {"@", "/", ":", "?"}

FirstIndex(s, ch) == MinOf({i \in 1..Len(s) : s[i] = ch})

PartBefore(s, ch) == SubSeq(s, 1, FirstIndex(s, ch) - 1)

PartAfter(s, ch) == SubSeq(s, FirstIndex(s, ch) + 1, Len(s))

HasSuffix(s, suffix) ==
    Len(s) >= Len(suffix)
        /\ SubSeq(s, Len(s) - Len(suffix) + 1, Len(s)) = suffix

DropSuffix(s, n) == SubSeq(s, 1, Len(s) - n)

NoSurroundingSpace(c) ==
    c # <<>> /\ c[1] \notin Whitespace /\ c[Len(c)] \notin Whitespace

HasSplit == pc \in {"split", "rebuilt", "resplit"}

HasRebuilt == pc \in {"rebuilt", "resplit"}

HasBuilt == mode = "build" /\ pc # "fields"

Text3306 == <<"3", "3", "0", "6">>

TextTest == <<"t", "e", "s", "t">>

TextPostgres == <<"p", "o", "s", "t", "g", "r", "e", "s", ":", "/", "/">>

TextDefaultArgs ==
    <<"?", "s", "s", "l", "m", "o", "d", "e", "=",
      "d", "i", "s", "a", "b", "l", "e">>

\* user:pass@host:port/db?args, each delimiter in its place exactly once
IsFullForm(s) ==
    /\ Count(s, "@") = 1 /\ Count(s, "/") = 1
    /\ Count(s, "?") = 1 /\ Count(s, ":") = 2
    /\ Count(PartBefore(s, "@"), ":") = 1
    /\ Count(PartAfter(s, "@"), "/") = 1
    /\ Count(PartBefore(PartAfter(s, "@"), "/"), ":") = 1
    /\ Count(PartAfter(PartAfter(s, "@"), "/"), "?") = 1

FullFormFields(s) ==
    LET creds == PartBefore(s, "@")
        hostPort == PartBefore(PartAfter(s, "@"), "/")
        database == PartAfter(PartAfter(s, "@"), "/")
    IN  [username |-> PartBefore(creds, ":"), password |-> PartAfter(creds, ":"),
         hasPassword |-> TRUE,
         host |-> PartBefore(hostPort, ":"), port |-> PartAfter(hostPort, ":"),
         dbname |-> PartBefore(database, "?"), args |-> PartAfter(database, "?")]

\* C1: for every input user:pass@host:port/db?args whose six components are
\* non-empty, free of '@', '/', ':', '?' and of surrounding white space, with
\* '=' in args, splitConnectionString returns exactly these components with
\* hasPassword = TRUE, and rebuildConnectionString returns
\* "postgres://" followed by the input, together with db.
C1_FullFormPreserved ==
    (HasSplit /\ IsFullForm(connectionString)) =>
        LET f == FullFormFields(connectionString)
        IN  (/\ NoSurroundingSpace(f.username) /\ NoSurroundingSpace(f.password)
             /\ NoSurroundingSpace(f.host) /\ NoSurroundingSpace(f.port)
             /\ NoSurroundingSpace(f.dbname) /\ NoSurroundingSpace(f.args)
             /\ Contains(f.args, "="))
            => /\ parsed = f
               /\ HasRebuilt =>
                    /\ newConnectionString = TextPostgres \o connectionString
                    /\ dbname = f.dbname

C1_Witness ==
    /\ pc = "rebuilt"
    /\ connectionString = <<"u", "s", "e", "r", ":", "p", "a", "s", "s", "@", "h", "o", "s", "t", ":", "p", "o", "r", "t", "/", "d", "b", "?", "a", "r", "g", "s", "=", "1">>
    /\ parsed.username = <<"u", "s", "e", "r">>
    /\ parsed.args = <<"a", "r", "g", "s", "=", "1">>
    /\ newConnectionString = TextPostgres \o <<"u", "s", "e", "r", ":", "p", "a", "s", "s", "@", "h", "o", "s", "t", ":", "p", "o", "r", "t", "/", "d", "b", "?", "a", "r", "g", "s", "=", "1">>
    /\ dbname = <<"d", "b">>

\* a component that holds something besides white space
NonBlank(c) == \E i \in 1..Len(c) : c[i] \notin Whitespace

\* [username[:password]@]host[:port]/database: one '/', no '?', at most one
\* '@', at most one ':' on each side of it, every component present non-blank
IsOptionalForm(s) ==
    /\ Count(s, "/") = 1 /\ Count(s, "?") = 0 /\ Count(s, "@") <= 1
    /\ LET creds == IF Count(s, "@") = 1 THEN PartBefore(s, "@") ELSE <<>>
           rest == IF Count(s, "@") = 1 THEN PartAfter(s, "@") ELSE s
           hostPort == PartBefore(rest, "/")
       IN  /\ Count(rest, "/") = 1
           /\ Count(creds, ":") <= 1
           /\ Count(s, "@") = 1 =>
                IF Count(creds, ":") = 1
                THEN NonBlank(PartBefore(creds, ":")) /\ NonBlank(PartAfter(creds, ":"))
                ELSE NonBlank(creds)
           /\ Count(hostPort, ":") <= 1
           /\ IF Count(hostPort, ":") = 1
              THEN NonBlank(PartBefore(hostPort, ":")) /\ NonBlank(PartAfter(hostPort, ":"))
              ELSE NonBlank(hostPort)
           /\ NonBlank(PartAfter(rest, "/"))

OptionalCreds(s) == IF Count(s, "@") = 1 THEN PartBefore(s, "@") ELSE <<>>

OptionalHostPort(s) ==
    PartBefore(IF Count(s, "@") = 1 THEN PartAfter(s, "@") ELSE s, "/")

OptionalHost(s) ==
    IF Count(OptionalHostPort(s), ":") = 1
    THEN PartBefore(OptionalHostPort(s), ":") ELSE OptionalHostPort(s)

OptionalDatabase(s) ==
    PartAfter(IF Count(s, "@") = 1 THEN PartAfter(s, "@") ELSE s, "/")

\* the components present in s carry no surrounding white space
OptionalFormIsTrimmed(s) ==
    /\ NoSurroundingSpace(OptionalHost(s))
    /\ NoSurroundingSpace(OptionalDatabase(s))
    /\ Count(OptionalHostPort(s), ":") = 1 =>
         NoSurroundingSpace(PartAfter(OptionalHostPort(s), ":"))
    /\ Count(s, "@") = 1 =>
         IF Count(OptionalCreds(s), ":") = 1
         THEN /\ NoSurroundingSpace(PartBefore(OptionalCreds(s), ":"))
              /\ NoSurroundingSpace(PartAfter(OptionalCreds(s), ":"))
         ELSE NoSurroundingSpace(OptionalCreds(s))

OptionalFormResult(s) ==
    /\ Count(s, "@") = 0 =>
         /\ parsed.username = <<>>
         /\ parsed.password = <<>>
         /\ parsed.hasPassword = FALSE
    /\ (Count(s, "@") = 1 /\ Count(OptionalCreds(s), ":") = 0) =>
         /\ parsed.username = OptionalCreds(s)
         /\ parsed.hasPassword = FALSE
    /\ Count(OptionalHostPort(s), ":") = 0 => parsed.port = Text3306
    /\ parsed.host = OptionalHost(s)
    /\ parsed.dbname = OptionalDatabase(s)
    /\ parsed.args = <<>>

\* C2 as stated: for inputs [username[:password]@]host[:port]/database with
\* non-empty, delimiter-free components (read here as: holding more than white
\* space), no '@' part gives empty username and
\* password and hasPassword = FALSE, credentials without ':' give the whole
\* credentials as username and hasPassword = FALSE, a host without port gives
\* port "3306", and host, dbname are the given ones, args empty.
C2_OptionalParts_AsStated ==
    (HasSplit /\ IsOptionalForm(connectionString)) =>
        OptionalFormResult(connectionString)

\* C2, amended: the same, for components that carry no surrounding white space
\* (leftOf and rightOf trim what they return).
C2_OptionalParts ==
    (/\ HasSplit
     /\ IsOptionalForm(connectionString)
     /\ OptionalFormIsTrimmed(connectionString)) =>
        OptionalFormResult(connectionString)

C2_Witness ==
    /\ pc = "split"
    /\ connectionString = <<"u", "s", "e", "r", "@", "h", "o", "s", "t", "/", "d", "b">>
    /\ IsOptionalForm(connectionString)
    /\ OptionalFormIsTrimmed(connectionString)
    /\ parsed.username = <<"u", "s", "e", "r">>
    /\ parsed.hasPassword = FALSE
    /\ parsed.host = <<"h", "o", "s", "t">>
    /\ parsed.port = Text3306
    /\ parsed.dbname = <<"d", "b">>

\* C3: for every field tuple p, with s = buildConnectionString(p), parsing
\* the rebuilt s gives the same fields as parsing s:
\* split(build(split(s))) = split(s).
C3_ReencodeIdempotent ==
    (mode = "build" /\ pc = "resplit") => reparsed = parsed

\* C4: credentials that are a username followed by a single ':' and nothing
\* else parse to that username, an empty password and hasPassword = TRUE.
C4_EmptyPasswordFlagged ==
    (/\ HasSplit
     /\ Count(connectionString, "@") = 1
     /\ Count(PartBefore(connectionString, "@"), ":") = 1
     /\ PartAfter(PartBefore(connectionString, "@"), ":") = <<>>
     /\ NoSurroundingSpace(PartBefore(PartBefore(connectionString, "@"), ":")))
    => /\ parsed.username = PartBefore(PartBefore(connectionString, "@"), ":")
       /\ parsed.password = <<>>
       /\ parsed.hasPassword = TRUE

IsBareString(s) == s # <<>> /\ \A i \in 1..Len(s) : s[i] \notin Delimiters

\* C5 as stated: a non-empty input without '@', '/', ':' and '?' parses to
\* host = "", port = "" and the default database name.
C5_BareString_AsStated ==
    (HasSplit /\ IsBareString(connectionString)) =>
        /\ parsed.host = <<>>
        /\ parsed.port = <<>>
        /\ parsed.dbname = TextTest

\* C5, amended: such an input is taken as the host: host is the input itself,
\* port is the default port "3306" and dbname the default database name.
C5_BareString ==
    (HasSplit /\ IsBareString(connectionString)) =>
        /\ parsed.host = connectionString
        /\ parsed.port = Text3306
        /\ parsed.dbname = TextTest

C5_Witness ==
    /\ pc = "split"
    /\ connectionString = <<"d", "b">>
    /\ parsed.host = <<"d", "b">>
    /\ parsed.port = Text3306
    /\ parsed.dbname = TextTest

\* C6: the dbname splitConnectionString returns, and the one
\* rebuildConnectionString returns, is never empty.
C6_DbnameNonEmpty ==
    /\ HasSplit => parsed.dbname # <<>>
    /\ HasRebuilt => dbname # <<>>

\* the tail of s is "?sslmode=disable" if f has no args, and else "?" and the
\* args, written right after "/" and the dbname
ArgsTailOf(f, s) ==
    IF f.args = <<>>
    THEN HasSuffix(s, TextDefaultArgs)
    ELSE /\ HasSuffix(s, <<"?">> \o f.args)
         /\ HasSuffix(DropSuffix(s, Len(f.args) + 1), <<"/">> \o f.dbname)

\* C7: buildConnectionString ends its output with "?sslmode=disable" when
\* args is empty, and with "?" and args, nothing appended, when it is not.
C7_ArgsTail ==
    /\ HasBuilt => ArgsTailOf(fields, connectionString)
    /\ HasRebuilt => ArgsTailOf(parsed, newConnectionString)

C7_Witness ==
    /\ mode = "build"
    /\ pc = "string"
    /\ fields.args = <<"k", "=", "v">>
    /\ fields.dbname = <<"d">>
    /\ HasSuffix(connectionString, <<"/", "d", "?", "k", "=", "v">>)

\* what the output holds before the credentials
SchemeText(f) ==
    IF HasPrefix(f.username, TextPostgres) THEN <<>> ELSE TextPostgres

\* what the output holds after the credentials
AfterCredentialsText(f) ==
    f.host \o (IF f.port # <<>> THEN <<":">> \o f.port ELSE <<>>)
        \o <<"/">> \o f.dbname
        \o (IF f.args # <<>> THEN <<"?">> \o f.args ELSE TextDefaultArgs)

\* the output is the scheme, a credentials segment, and the rest
HasCredentialsSegment(f, s) ==
    /\ HasPrefix(s, SchemeText(f))
    /\ HasSuffix(s, AfterCredentialsText(f))
    /\ Len(s) >= Len(SchemeText(f)) + Len(AfterCredentialsText(f))

CredentialsSegment(f, s) ==
    SubSeq(s, Len(SchemeText(f)) + 1, Len(s) - Len(AfterCredentialsText(f)))

\* C8 as stated: a credentials segment is emitted only when username or
\* password is non-empty, it is one of "user:pass@", "user@", ":pass@" or
\* nothing, and with both empty nothing is emitted whatever hasPassword is.
C8_Credentials_AsStated ==
    HasBuilt =>
        /\ HasCredentialsSegment(fields, connectionString)
        /\ LET seg == CredentialsSegment(fields, connectionString)
               u == fields.username
               p == fields.password
           IN  /\ seg # <<>> => (u # <<>> \/ p # <<>>)
               /\ seg \in {u \o <<":">> \o p \o <<"@">>, u \o <<"@">>,
                           <<":">> \o p \o <<"@">>, <<>>}
               /\ (u = <<>> /\ p = <<>>) => seg = <<>>

\* C8, amended: the segment is decided by username and hasPassword:
\* "user:pass@" when username is non-empty and hasPassword is true, "user@"
\* when username is non-empty and hasPassword is false, ":pass@" when
\* username is empty and hasPassword is true, nothing otherwise; pass may be
\* empty, so username = "", password = "", hasPassword = TRUE gives ":@".
C8_Credentials ==
    HasBuilt =>
        /\ HasCredentialsSegment(fields, connectionString)
        /\ LET seg == CredentialsSegment(fields, connectionString)
               u == fields.username
               p == fields.password
           IN  seg = IF u # <<>> /\ fields.hasPassword
                         THEN u \o <<":">> \o p \o <<"@">>
                     ELSE IF u # <<>> THEN u \o <<"@">>
                     ELSE IF fields.hasPassword THEN <<":">> \o p \o <<"@">>
                     ELSE <<>>

C8_Witness ==
    /\ mode = "build"
    /\ pc = "string"
    /\ fields.username = <<>>
    /\ fields.password = <<>>
    /\ fields.hasPassword = TRUE
    /\ fields.host = <<"h">>
    /\ HasPrefix(connectionString, TextPostgres \o <<":", "@", "h">>)

\* what the output holds up to the host
UpToHostText(f) ==
    SchemeText(f)
        \o (IF f.username # <<>> /\ f.hasPassword
                THEN f.username \o <<":">> \o f.password \o <<"@">>
            ELSE IF f.username # <<>> THEN f.username \o <<"@">>
            ELSE IF f.hasPassword THEN <<":">> \o f.password \o <<"@">>
            ELSE <<>>)

DatabaseText(f) ==
    <<"/">> \o f.dbname
        \o (IF f.args # <<>> THEN <<"?">> \o f.args ELSE TextDefaultArgs)

\* C9 as stated: with host = "" nothing stands between the scheme and
\* credentials part and "/dbname".
C9_NoHostNoPort_AsStated ==
    /\ (HasBuilt /\ fields.host = <<>>) =>
         connectionString = UpToHostText(fields) \o DatabaseText(fields)
    /\ (HasRebuilt /\ parsed.host = <<>>) =>
         newConnectionString = UpToHostText(parsed) \o DatabaseText(parsed)

PortText(f) == IF f.port # <<>> THEN <<":">> \o f.port ELSE <<>>

\* C9, amended: the port is written whenever it is non-empty, with or without
\* a host: with host = "" the output holds ":port" between the scheme and
\* credentials part and "/dbname" when port is non-empty, and nothing there
\* when port is empty.
C9_NoHost ==
    /\ (HasBuilt /\ fields.host = <<>>) =>
         connectionString =
            UpToHostText(fields) \o PortText(fields) \o DatabaseText(fields)
    /\ (HasRebuilt /\ parsed.host = <<>>) =>
         newConnectionString =
            UpToHostText(parsed) \o PortText(parsed) \o DatabaseText(parsed)

C9_Witness ==
    /\ pc = "rebuilt"
    /\ connectionString = <<":", "1", "2", "3", "4", "/", "d", "b">>
    /\ parsed.host = <<>>
    /\ parsed.port = <<"1", "2", "3", "4">>
    /\ newConnectionString = TextPostgres \o <<":", "1", "2", "3", "4", "/", "d", "b">> \o TextDefaultArgs

\* C10: under any interleaving of Set.Add calls no value is stored twice,
\* and Set.Has never panics on duplicate members.
C10_NoDuplicateMembers ==
    /\ \A v \in Values : table[v] <= 1
    /\ \A c \in Callers : callerPc[c] # "panicked"

==========================================================================
